---- MODULE Spec2Model ----
(***************************************************************************)
(* Proxy pool lifecycle engine of jo2-proxy: the SQLite record store       *)
(* (src/src/database.py), the refresh orchestrator                         *)
(* (src/src/proxy_manager.py) and the selector (src/src/proxy_provider.py).*)
(*                                                                         *)
(* Conventions.                                                            *)
(*  - A Python/SQL value that may be None/NULL is a sequence of length at  *)
(*    most one: None is << >>, the value v is << v >>.                     *)
(*  - A text (token, host, scheme) is a sequence of one-character strings. *)
(*  - The table `proxies` is the sequence of its rows in rowid order.      *)
(*  - Time is counted in ticks of half a day.  `now` is the UTC clock;     *)
(*    Python's datetime.now() is the local wall clock now + tz, SQLite's   *)
(*    datetime('now') is UTC.                                              *)
(*  - A rate r (a float in the source) is the integer 10*r; the float      *)
(*    comparison x/y >= r is the integer comparison 10*x >= (10*r)*y,      *)
(*    which agrees with IEEE division for the counters modelled.           *)
(***************************************************************************)
EXTENDS Integers, Sequences, FiniteSets, TLC

VARIABLES
    store,      \* table proxies: sequence of rows, rowid order
    now,        \* UTC clock, in ticks
    seq,        \* sqlite_sequence of proxies: the largest id ever given
    tz,         \* offset of the host's local time from UTC, in ticks
    last,       \* the last completed store call: [op, key, ret]
    pc,         \* where the call in progress stands
    call,       \* the call in progress or just returned: [op, limit, rate, country, protocol]
    all_proxies,    \* refresh: the merged candidate tokens
    parsed_proxies, \* refresh: the parsed candidates
    probes,     \* refresh: the outcome of each validation that has finished
    valid_count,    \* refresh: validations that returned True
    report,     \* what refresh_proxy_pool returned
    result,     \* what the selector call returned
    store0,     \* the table when the call started
    responses,  \* what each source answered in this run, << >> before the fetch
    fetching,   \* refresh: the sources whose fetch occupies a worker of the pool
    inflight,   \* refresh: the validations that occupy a worker, each with its stage
    stats       \* a get_stats call running beside the writers: its stage and its reads

dbvars == <<store, seq, now, tz, last>>
runvars == <<pc, call, all_proxies, parsed_proxies, probes, valid_count, report, result, store0,
             responses, fetching, inflight, stats>>
workvars == <<fetching, inflight, stats>>
vars == <<dbvars, runvars>>

----------------------------------------------------------------------------
(* Bounds of the model *)

MaxSucc == 3        \* no recordSuccess once the rows count this many successes
MaxFail == 8        \* no recordFailure once the rows count this many failures
MaxTime == 2        \* the clock stops here
MaxId == 3          \* no insert is attempted once this many ids were given

(* Program constants *)

FailThreshold == 5  \* database.py:172  fail_count > 5
TicksPerDay == 2    \* database.py:184  the ' days' modifier, in ticks

None == << >>
Some(v) == << v >>

\* F applied to the value of v, which is worked out once, before F is entered
With(v, F(_)) == CHOOSE r \in { F(x) : x \in {v} } : TRUE

\* the texts used as hosts and protocols
HostA == <<"a">>
HostB == <<"b">>
Http == <<"h", "t", "t", "p">>
Socks == <<"s", "5">>

\* (ip, port) pairs the store calls are made with
Keys == { [ip |-> HostA, port |-> 1], [ip |-> HostA, port |-> 2] }

\* (protocol, country, anonymity) arguments of add_proxy / entries of a bulk add
Tags == { [protocol |-> Http, country |-> None, anonymity |-> None],
          [protocol |-> Socks, country |-> Some(<<"U", "S">>), anonymity |-> Some(<<"e">>)] }

TzOffsets == {-1, 0, 1}
DaysArgs == {0, 1}
Latencies == {1}

----------------------------------------------------------------------------
(* src/src/database.py *)

\* datetime.now(): naive local time
LocalNow == now + tz

\* the row INSERT builds: id from AUTOINCREMENT, column defaults of the
\* schema for the columns the statement does not name
NewRow(id, ip, port, protocol, country, anonymity) ==
    [id |-> id, ip |-> ip, port |-> port, protocol |-> protocol,
     country |-> country, anonymity |-> anonymity, speed |-> None,
     success_count |-> 0, fail_count |-> 0, last_checked |-> Some(LocalNow),
     last_used |-> None, is_active |-> TRUE]

\* UNIQUE(ip, port): does a row of table t conflict with (ip, port)
Conflicts(t, ip, port) ==
    \E i \in DOMAIN t : t[i].ip = ip /\ t[i].port = port

\* a plausible slip: INSERT OR REPLACE, the conflicting row gives way
MutInsertOrReplace(t, s, ip, port, protocol, country, anonymity) ==
    Append(SelectSeq(t, LAMBDA r : ~(r.ip = ip /\ r.port = port)),
           NewRow(s + 1, ip, port, protocol, country, anonymity))

\* INSERT OR IGNORE INTO proxies ...: the table afterwards, s the sequence before
InsertOrIgnore(t, s, ip, port, protocol, country, anonymity) ==
    IF Conflicts(t, ip, port)
    THEN t
    ELSE Append(t, NewRow(s + 1, ip, port, protocol, country, anonymity))

\* cursor.rowcount of that statement
InsertRowcount(t, ip, port) == IF Conflicts(t, ip, port) THEN 0 ELSE 1

\* one pass of the loop of add_proxies_bulk: proxy.get('ip') or
\* proxy.get('port') may be None, and a NULL in a NOT NULL column makes
\* INSERT OR IGNORE skip the row
InsertEntry(t, s, p) ==
    IF p.ip = None \/ p.port = None THEN t
    ELSE InsertOrIgnore(t, s, p.ip[1], p.port[1], p.protocol, p.country, p.anonymity)

EntryRowcount(t, p) ==
    IF p.ip = None \/ p.port = None THEN 0 ELSE InsertRowcount(t, p.ip[1], p.port[1])

\* add_proxies_bulk: the loop over the list
\* (the list is cut in two halves and the first half is worked off before
\* the second is entered, so that the evaluation stays shallow for a long
\* list)
RECURSIVE BulkInsert(_, _, _)
BulkInsert(t, s, proxies) ==
    IF proxies = << >> THEN t
    ELSE IF Len(proxies) = 1 THEN InsertEntry(t, s, proxies[1])
    ELSE LET half == Len(proxies) \div 2
         IN With(BulkInsert(t, s, SubSeq(proxies, 1, half)),
                 LAMBDA mid : BulkInsert(mid, s + (Len(mid) - Len(t)),
                                         SubSeq(proxies, half + 1, Len(proxies))))

\* its return value: the sum of the rowcounts
RECURSIVE BulkAdded(_, _, _)
BulkAdded(t, s, proxies) ==
    IF proxies = << >> THEN 0
    ELSE IF Len(proxies) = 1 THEN EntryRowcount(t, proxies[1])
    ELSE LET half == Len(proxies) \div 2
         IN With(BulkInsert(t, s, SubSeq(proxies, 1, half)),
                 LAMBDA mid : (Len(mid) - Len(t))
                              + BulkAdded(mid, s + (Len(mid) - Len(t)),
                                          SubSeq(proxies, half + 1, Len(proxies))))

\* a plausible slip: the flag is left as it is
MutSuccessKeepsFlag(t, ip, port, response_time) ==
    [i \in DOMAIN t |->
        IF t[i].ip = ip /\ t[i].port = port
        THEN [t[i] EXCEPT !.success_count = @ + 1,
                          !.last_used = Some(LocalNow),
                          !.speed = Some(response_time)]
        ELSE t[i]]

\* UPDATE proxies SET success_count = success_count + 1, last_used = ?,
\*   speed = ?, is_active = 1 WHERE ip = ? AND port = ?
SuccessUpdate(t, ip, port, response_time) ==
    [i \in DOMAIN t |->
        IF t[i].ip = ip /\ t[i].port = port
        THEN [t[i] EXCEPT !.success_count = @ + 1,
                          !.last_used = Some(LocalNow),
                          !.speed = Some(response_time),
                          !.is_active = TRUE]
        ELSE t[i]]

\* a plausible slip: a failure starts the success count again
MutFailResetsSuccess(t, ip, port) ==
    [i \in DOMAIN t |->
        IF t[i].ip = ip /\ t[i].port = port
        THEN [t[i] EXCEPT !.fail_count = @ + 1, !.success_count = 0,
                          !.last_checked = Some(LocalNow)]
        ELSE t[i]]

\* a plausible slip: the new count is computed from a value read when the
\* run began, not by the UPDATE statement itself
MutFailIncrementStale(t, ip, port) ==
    [i \in DOMAIN t |->
        IF t[i].ip = ip /\ t[i].port = port
        THEN LET old == { store0[j].fail_count :
                            j \in { k \in DOMAIN store0 : store0[k].id = t[i].id } }
                 read == IF old = {} THEN 0 ELSE CHOOSE n \in old : TRUE
             IN [t[i] EXCEPT !.fail_count = read + 1, !.last_checked = Some(LocalNow)]
        ELSE t[i]]

\* UPDATE proxies SET fail_count = fail_count + 1, last_checked = ? WHERE ...
FailIncrement(t, ip, port) ==
    [i \in DOMAIN t |->
        IF t[i].ip = ip /\ t[i].port = port
        THEN [t[i] EXCEPT !.fail_count = @ + 1, !.last_checked = Some(LocalNow)]
        ELSE t[i]]

\* a plausible slip: the ratio is not looked at
MutDeactivateNoRatio(r) == r.fail_count > FailThreshold

\* a plausible slip: the test of fail_count is left out
MutDeactivateNoThreshold(r) ==
    \/ r.success_count = 0
    \/ 10 * r.fail_count > 7 * (r.success_count + r.fail_count)

\* fail_count > 5 AND (success_count = 0 OR
\*   CAST(fail_count AS FLOAT) / (success_count + fail_count) > 0.7)
DeactivateCond(r) ==
    /\ r.fail_count > FailThreshold
    /\ \/ r.success_count = 0
       \/ 10 * r.fail_count > 7 * (r.success_count + r.fail_count)

\* UPDATE proxies SET is_active = 0 WHERE ip = ? AND port = ? AND <cond>
Deactivate(t, ip, port) ==
    [i \in DOMAIN t |->
        IF t[i].ip = ip /\ t[i].port = port /\ DeactivateCond(t[i])
        THEN [t[i] EXCEPT !.is_active = FALSE]
        ELSE t[i]]

\* the transaction of update_proxy_failure
FailureUpdate(t, ip, port) == Deactivate(FailIncrement(t, ip, port), ip, port)

\* datetime('now', '-' || days || ' days'): UTC
Cutoff(days) == now - days * TicksPerDay

\* is_active = 0 AND last_checked < datetime('now', ...); a NULL last_checked
\* compares as unknown and the row is kept
PruneCond(r, days) ==
    /\ ~r.is_active
    /\ r.last_checked # None
    /\ r.last_checked[1] < Cutoff(days)

\* DELETE FROM proxies WHERE <PruneCond>
PruneDelete(t, days) == SelectSeq(t, LAMBDA r : ~PruneCond(r, days))

PruneRowcount(t, days) == Len(t) - Len(PruneDelete(t, days))

----------------------------------------------------------------------------
(* The store's operations as actions *)

\* the outcomes of one kind the rows of t have counted together
RECURSIVE Total(_, _)
Total(t, field) ==
    IF t = << >> THEN 0
    ELSE IF Len(t) = 1 THEN t[1][field]
    ELSE LET half == Len(t) \div 2
         IN Total(SubSeq(t, 1, half), field) + Total(SubSeq(t, half + 1, Len(t)), field)

\* the calls with (ip, port) among K
AddOn(K) ==
    \E k \in K, g \in Tags :
        /\ seq + InsertRowcount(store, k.ip, k.port) <= MaxId
        /\ store' = InsertOrIgnore(store, seq, k.ip, k.port, g.protocol, g.country, g.anonymity)
        /\ seq' = seq + InsertRowcount(store, k.ip, k.port)
        /\ last' = [op |-> "add_proxy", key |-> k,
                    ret |-> InsertRowcount(store, k.ip, k.port)]
        /\ UNCHANGED <<now, tz, runvars>>

Entry(k, g) ==
    [ip |-> Some(k.ip), port |-> Some(k.port), protocol |-> g.protocol,
     country |-> g.country, anonymity |-> g.anonymity]

\* the lists a bulk add is called with: empty, one entry, two entries
BulkLists(K) ==
    { << >> } \cup { << Entry(k, g) >> : k \in K, g \in Tags }
    \cup { << Entry(k1, g), Entry(k2, g) >> : k1 \in K, k2 \in K, g \in Tags }

KeysOf(l) == [i \in DOMAIN l |-> [ip |-> l[i].ip[1], port |-> l[i].port[1]]]

BulkOn(K) ==
    \E l \in BulkLists(K) :
        /\ seq + BulkAdded(store, seq, l) <= MaxId
        /\ store' = BulkInsert(store, seq, l)
        /\ seq' = seq + BulkAdded(store, seq, l)
        /\ last' = [op |-> "add_proxies_bulk", key |-> KeysOf(l),
                    ret |-> BulkAdded(store, seq, l)]
        /\ UNCHANGED <<now, tz, runvars>>

SuccessOn(K) ==
    \E k \in K, rt \in Latencies :
        /\ Total(store, "success_count") < MaxSucc
        /\ store' = SuccessUpdate(store, k.ip, k.port, rt)
        /\ last' = [op |-> "update_proxy_success", key |-> k, ret |-> 0]
        /\ UNCHANGED <<seq, now, tz, runvars>>

FailureOn(K) ==
    \E k \in K :
        /\ Total(store, "fail_count") < MaxFail
        /\ store' = FailureUpdate(store, k.ip, k.port)
        /\ last' = [op |-> "update_proxy_failure", key |-> k, ret |-> 0]
        /\ UNCHANGED <<seq, now, tz, runvars>>

remove_inactive_proxies ==
    \E d \in DaysArgs :
        /\ store' = PruneDelete(store, d)
        /\ last' = [op |-> "remove_inactive_proxies", key |-> d,
                    ret |-> PruneRowcount(store, d)]
        /\ UNCHANGED <<seq, now, tz, runvars>>

Tick ==
    /\ now < MaxTime
    /\ now' = now + 1
    /\ last' = [op |-> "tick", key |-> 0, ret |-> 0]
    /\ UNCHANGED <<store, seq, tz, runvars>>

----------------------------------------------------------------------------
(* SpecStore: inserts and validation outcomes on two keys, clock at rest *)

add_proxy == AddOn(Keys)

add_proxies_bulk == BulkOn(Keys)

update_proxy_success == SuccessOn(Keys)

update_proxy_failure == FailureOn(Keys)

\* no call of the orchestrator or the selector in progress
\* no top-level call of the manager or the provider is running
NoCall == [op |-> "none", limit |-> 0, rate |-> 0, country |-> None, protocol |-> None]

\* the call has not returned
NoResult == [kind |-> "pending", value |-> << >>]

\* no get_stats call is running
NoStats == [pc |-> "idle", total |-> 0, active |-> 0, average |-> 0]

RunIdle ==
    /\ pc = "idle"
    /\ call = NoCall
    /\ all_proxies = << >>
    /\ parsed_proxies = << >>
    /\ probes = << >>
    /\ valid_count = 0
    /\ report = None
    /\ result = NoResult
    /\ store0 = store
    /\ responses = << >>
    /\ fetching = {}
    /\ inflight = << >>
    /\ stats = NoStats

StoreInit ==
    /\ store = << >>
    /\ seq = 0
    /\ now = 0
    /\ tz = 0
    /\ last = [op |-> "init", key |-> 0, ret |-> 0]
    /\ RunIdle

StoreNext ==
    \/ add_proxy
    \/ add_proxies_bulk
    \/ update_proxy_success
    \/ update_proxy_failure

SpecStore == StoreInit /\ [][StoreNext]_vars

----------------------------------------------------------------------------
(* SpecLife: the whole life of one record, with the clock running and the  *)
(* host in any time zone.                                                  *)

KeyA == [ip |-> HostA, port |-> 1]

life_add == AddOn({KeyA})

life_bulk == BulkOn({KeyA})

life_success == SuccessOn({KeyA})

life_failure == FailureOn({KeyA})

LifeInit ==
    /\ store = << >>
    /\ seq = 0
    /\ now = 0
    /\ tz \in TzOffsets
    /\ last = [op |-> "init", key |-> 0, ret |-> 0]
    /\ RunIdle

LifeNext ==
    \/ life_add
    \/ life_bulk
    \/ life_success
    \/ life_failure
    \/ remove_inactive_proxies
    \/ Tick

SpecLife == LifeInit /\ [][LifeNext]_vars

----------------------------------------------------------------------------
(* Texts: the str methods the fetcher and the parser use *)

Space == " "
Newline == "\n"
DigitChars == {"0", "1", "2", "3", "4", "5", "6", "7", "8", "9"}
LetterChars == {"a", "b", "c", "h", "p", "s", "t", "u", "x", "A", "H", "S", "U"}

\* str.split(c)
RECURSIVE Split(_, _)
Split(s, c) ==
    IF \A i \in DOMAIN s : s[i] # c THEN << s >>
    ELSE LET i == CHOOSE j \in DOMAIN s : s[j] = c /\ \A k \in 1..(j - 1) : s[k] # c
         IN << SubSeq(s, 1, i - 1) >> \o Split(SubSeq(s, i + 1, Len(s)), c)

\* str.strip()
RECURSIVE Strip(_)
Strip(s) ==
    IF s = << >> THEN s
    ELSE IF Head(s) \in {Space, "\r", "\t"} THEN Strip(Tail(s))
    ELSE IF s[Len(s)] \in {Space, "\r", "\t"} THEN Strip(SubSeq(s, 1, Len(s) - 1))
    ELSE s

\* sub in s
Contains(s, sub) ==
    \E i \in 1..(Len(s) - Len(sub) + 1) : SubSeq(s, i, i + Len(sub) - 1) = sub

\* s.startswith(sub)
StartsWith(s, sub) == Len(s) >= Len(sub) /\ SubSeq(s, 1, Len(sub)) = sub

LowerChar(c) ==
    CASE c = "A" -> "a" [] c = "H" -> "h" [] c = "S" -> "s" [] c = "U" -> "u"
      [] OTHER -> c

UpperChar(c) ==
    CASE c = "a" -> "A" [] c = "h" -> "H" [] c = "s" -> "S" [] c = "u" -> "U"
      [] c = "b" -> "B" [] c = "c" -> "C" [] c = "p" -> "P" [] c = "t" -> "T"
      [] c = "x" -> "X" [] c = "e" -> "E"
      [] OTHER -> c

\* str.lower(), str.upper()
Lower(s) == [i \in DOMAIN s |-> LowerChar(s[i])]
Upper(s) == [i \in DOMAIN s |-> UpperChar(s[i])]

DigitVal(c) ==
    CASE c = "0" -> 0 [] c = "1" -> 1 [] c = "2" -> 2 [] c = "3" -> 3 [] c = "4" -> 4
      [] c = "5" -> 5 [] c = "6" -> 6 [] c = "7" -> 7 [] c = "8" -> 8 [] c = "9" -> 9

IsDigits(s) == s # << >> /\ \A i \in DOMAIN s : s[i] \in DigitChars

RECURSIVE DecimalValue(_)
DecimalValue(s) ==
    IF s = << >> THEN 0
    ELSE 10 * DecimalValue(SubSeq(s, 1, Len(s) - 1)) + DigitVal(s[Len(s)])

\* int(s): None stands for ValueError.  An optional sign, then digits.
PyInt(s) ==
    IF IsDigits(s) THEN Some(DecimalValue(s))
    ELSE IF s # << >> /\ Head(s) = "+" /\ IsDigits(Tail(s)) THEN Some(DecimalValue(Tail(s)))
    ELSE IF s # << >> /\ Head(s) = "-" /\ IsDigits(Tail(s)) THEN Some(0 - DecimalValue(Tail(s)))
    ELSE None

----------------------------------------------------------------------------
(* src/src/proxy_manager.py: fetch_proxies_from_source, parse_proxy_string *)

HttpOk == 200       \* proxy_manager.py:30
PortMax == 65535    \* urlparse(...).port, proxy_manager.py:75

\* the lines of a 200 response that are kept as candidate tokens
KeptLines(text) ==
    LET lines == Split(text, Newline)
        stripped == [i \in DOMAIN lines |-> Strip(lines[i])]
    IN SelectSeq(stripped, LAMBDA l : Contains(l, <<":">>) /\ ~StartsWith(l, <<"#">>))

\* fetch_proxies_from_source: status 0 stands for an exception of requests.get
FetchResult(response) ==
    IF response.status = HttpOk THEN KeptLines(response.text) ELSE << >>

\* the scheme urlsplit finds: the text before the first colon if it starts
\* with a letter and holds scheme characters only
SchemeLen(url) ==
    LET i == CHOOSE j \in DOMAIN url : url[j] = ":" /\ \A k \in 1..(j - 1) : url[k] # ":"
    IN IF /\ i > 1
          /\ url[1] \in LetterChars
          /\ \A k \in 1..(i - 1) : url[k] \in LetterChars \cup DigitChars \cup {"+", "-", "."}
       THEN i - 1 ELSE 0

\* the netloc of what follows the scheme: after "//", up to the first / ? #
Netloc(rest) ==
    IF ~StartsWith(rest, <<"/", "/">>) THEN << >>
    ELSE LET r == SubSeq(rest, 3, Len(rest))
             stops == { j \in DOMAIN r : r[j] \in {"/", "?", "#"} }
         IN IF stops = {} THEN r
            ELSE SubSeq(r, 1, (CHOOSE j \in stops : \A k \in stops : j <= k) - 1)

\* urlparse(proxy_str): hostname, port, scheme.  None stands for ValueError.
ParseUrl(tok) ==
    LET n == SchemeLen(tok)
        scheme == Lower(SubSeq(tok, 1, n))
        rest == IF n = 0 THEN tok ELSE SubSeq(tok, n + 2, Len(tok))
        hostinfo == Netloc(rest)
        parts == Split(hostinfo, ":")
        host == Lower(parts[1])
        portstr == IF Len(parts) = 1 THEN << >>
                   ELSE SubSeq(hostinfo, Len(parts[1]) + 2, Len(hostinfo))
    IN IF portstr = << >>
       THEN Some([ip |-> IF host = << >> THEN None ELSE Some(host),
                  port |-> None, protocol |-> scheme])
       ELSE IF IsDigits(portstr) /\ DecimalValue(portstr) <= PortMax
       THEN Some([ip |-> IF host = << >> THEN None ELSE Some(host),
                  port |-> Some(DecimalValue(portstr)), protocol |-> scheme])
       ELSE None

\* a plausible slip: the test of len(parts) is left out
MutParseBareAnyParts(tok) ==
    LET parts == Split(tok, ":") IN
    IF Len(parts) < 2 THEN None
    ELSE IF PyInt(Strip(parts[2])) = None THEN None
    ELSE Some([ip |-> Some(Strip(parts[1])), port |-> PyInt(Strip(parts[2])),
               protocol |-> Http])

\* the branch for IP:PORT
ParseBare(tok) ==
    LET parts == Split(tok, ":") IN
    IF Len(parts) # 2 THEN None
    ELSE IF PyInt(Strip(parts[2])) = None THEN None
    ELSE Some([ip |-> Some(Strip(parts[1])), port |-> PyInt(Strip(parts[2])),
               protocol |-> Http])

\* parse_proxy_string: None, or the dict in Some
parse_proxy_string(tok) ==
    IF Contains(tok, <<":", "/", "/">>) THEN ParseUrl(tok) ELSE ParseBare(tok)

----------------------------------------------------------------------------
(* src/src/database.py: get_active_proxies, get_stats *)

Min(a, b) == IF a <= b THEN a ELSE b
Max(a, b) == IF a >= b THEN a ELSE b

\* a plausible slip: ORDER BY success_count ASC
MutBeforeAscending(r1, r2) ==
    \/ r1.success_count < r2.success_count
    \/ r1.success_count = r2.success_count /\ r1.fail_count < r2.fail_count

\* a plausible slip: the rate test is left out of the WHERE clause
MutQualifiesActiveOnly(r, rate) == r.is_active

\* WHERE is_active = 1 AND (success_count + fail_count = 0 OR
\*   CAST(success_count AS FLOAT) / (success_count + fail_count) >= ?)
Qualifies(r, rate) ==
    /\ r.is_active
    /\ \/ r.success_count + r.fail_count = 0
       \/ 10 * r.success_count >= rate * (r.success_count + r.fail_count)

\* ORDER BY success_count DESC, fail_count ASC: r1 comes strictly before r2
Before(r1, r2) ==
    \/ r1.success_count > r2.success_count
    \/ r1.success_count = r2.success_count /\ r1.fail_count < r2.fail_count

\* the orders the rows I of t may come back in: sorted, ties in any order
RECURSIVE Orderings(_, _)
Orderings(t, I) ==
    IF I = {} THEN { << >> }
    ELSE LET first == { i \in I : \A j \in I : ~Before(t[j], t[i]) }
         IN UNION { { << i >> \o q : q \in Orderings(t, I \ {i}) } : i \in first }

\* SELECT ip, port, protocol, country, anonymity, success_count, fail_count,
\*   last_used, speed: dict(row)
RowDict(r) ==
    [ip |-> r.ip, port |-> r.port, protocol |-> r.protocol, country |-> r.country,
     anonymity |-> r.anonymity, success_count |-> r.success_count,
     fail_count |-> r.fail_count, last_used |-> r.last_used, speed |-> r.speed]

\* `if limit: query += LIMIT`: 0 is no limit, and SQLite reads a negative
\* LIMIT as no limit
Limited(q, limit) == IF limit > 0 THEN SubSeq(q, 1, Min(limit, Len(q))) ELSE q

\* get_active_proxies(limit, min_success_rate): the lists it may return
get_active_proxies(t, limit, rate) ==
    { Limited([k \in DOMAIN o |-> RowDict(t[o[k]])], limit) :
        o \in Orderings(t, { i \in DOMAIN t : Qualifies(t[i], rate) }) }

RECURSIVE Gcd(_, _)
Gcd(a, b) == IF b = 0 THEN a ELSE Gcd(b, a % b)

Lcm(a, b) == With(<<a, b>>, LAMBDA p : (p[1] \div Gcd(p[1], p[2])) * p[2])

\* a common denominator of the rates of the tested rows
RECURSIVE RateDen(_)
RateDen(t) ==
    IF t = << >> THEN 1
    ELSE IF Len(t) = 1
    THEN LET n == t[1].success_count + t[1].fail_count
         IN IF n = 0 THEN 1 ELSE n
    ELSE LET half == Len(t) \div 2
         IN Lcm(RateDen(SubSeq(t, 1, half)), RateDen(SubSeq(t, half + 1, Len(t))))

\* the sum of the rates of the tested rows, in units of 1/den
RECURSIVE RateSum(_, _)
RateSum(t, den) ==
    IF t = << >> THEN 0
    ELSE IF Len(t) = 1
    THEN LET n == t[1].success_count + t[1].fail_count
         IN IF n = 0 THEN 0 ELSE t[1].success_count * (den \div n)
    ELSE LET half == Len(t) \div 2
         IN RateSum(SubSeq(t, 1, half), den) + RateSum(SubSeq(t, half + 1, Len(t)), den)

\* round(avg_rate * 100, 2) in hundredths of a percent; AVG over the rows
\* with an outcome, 0 when there is none
AverageRate(t) ==
    With(SelectSeq(t, LAMBDA r : r.success_count + r.fail_count > 0),
         LAMBDA tested :
            IF tested = << >> THEN 0
            ELSE With(RateDen(tested),
                      LAMBDA d : (2 * 10000 * RateSum(tested, d) + d * Len(tested))
                                    \div (2 * d * Len(tested))))

\* get_stats()
get_stats(t) ==
    LET active == Len(SelectSeq(t, LAMBDA r : r.is_active)) IN
    [total_proxies |-> Len(t), active_proxies |-> active,
     inactive_proxies |-> Len(t) - active,
     average_success_rate |-> AverageRate(t)]

----------------------------------------------------------------------------
(* src/src/proxy_manager.py: the refresh run *)

MIN_PROXIES == 10       \* config.py:22
ValidateCap == 100      \* proxy_manager.py:147  parsed_proxies[:100]
RetentionDays == 7      \* proxy_manager.py:184  remove_inactive_proxies(days=7)

\* the texts of "a:1", "b:2", "h://a:1", "a:x", ":1", "h://a", "ab", "#b:2"
LineA1 == <<"a", ":", "1">>
LineB2 == <<"b", ":", "2">>
LineUrlA1 == <<"h", ":", "/", "/", "a", ":", "1">>
LineBadPort == <<"a", ":", "x">>
LineNoHost == <<":", "1">>
LineNoPort == <<"h", ":", "/", "/", "a">>
LineNoColon == <<"a", "b">>
LineComment == <<"#", "b", ":", "2">>

\* response bodies: lines joined by newlines
BodyPlain == LineA1 \o <<Newline>> \o LineNoColon \o <<Newline>> \o LineB2
BodyAlias == LineUrlA1 \o <<Newline>> \o LineBadPort \o <<Newline>> \o LineComment
             \o <<Newline, Space>> \o LineA1 \o <<Space, Newline>>
BodyOdd == LineNoHost \o <<Newline>> \o LineNoPort
BodyNothing == LineNoColon \o <<Newline>> \o LineComment \o <<Newline>>

\* what requests.get may give for each configured source; status 0 is an
\* exception (network error, timeout)
Sources == {1, 2}

Responses(src) ==
    IF src = 1
    THEN { [status |-> 0, text |-> << >>],
           [status |-> HttpOk, text |-> BodyAlias],
           [status |-> HttpOk, text |-> BodyOdd],
           [status |-> HttpOk, text |-> BodyNothing] }
    ELSE { [status |-> 500, text |-> BodyPlain],
           [status |-> HttpOk, text |-> BodyPlain],
           [status |-> HttpOk, text |-> << >>] }

Range(q) == { q[i] : i \in DOMAIN q }

\* the sequences that list each element of S once
Perms(S) ==
    { q \in [1..Cardinality(S) -> S] : \A i, j \in DOMAIN q : q[i] = q[j] => i = j }

\* a plausible slip: an exception of one worker ends the whole fetch
MutFetchAbortOnFailure(answers) ==
    IF \E src \in Sources : answers[src].status # HttpOk
    THEN { << >> }
    ELSE Perms(UNION { Range(FetchResult(answers[src])) : src \in Sources })

\* fetch_all_proxies: list(set(all_proxies)), in any order
fetch_all_proxies(answers) ==
    Perms(UNION { Range(FetchResult(answers[src])) : src \in Sources })

\* validate_proxies_batch, the parsing loop: the dicts of the tokens that parse
ParseAll(tokens) ==
    With(SelectSeq([i \in DOMAIN tokens |-> parse_proxy_string(tokens[i])],
                   LAMBDA d : d # None),
         LAMBDA kept : [i \in DOMAIN kept |-> kept[i][1]])

\* the dict as add_proxies_bulk reads it: proxy.get('country') and
\* proxy.get('anonymity') are None
BulkEntry(d) ==
    [ip |-> d.ip, port |-> d.port, protocol |-> d.protocol,
     country |-> None, anonymity |-> None]

\* a plausible slip: the prune does not wait for the validations
MutSubmittedNone(parsed) == {}

\* a plausible slip: the slice is left out and every candidate is validated
MutSubmittedAll(parsed) == 1..Len(parsed)

\* parsed_proxies[:100]: the indices that get a validation
Submitted(parsed) == 1..Min(Len(parsed), ValidateCap)

\* what the probe through a candidate may give: "ok" is status 200 in time;
\* a candidate without a host or a port gives no usable proxy URL
ProbeOutcomes(d) ==
    IF d.ip = None \/ d.port = None \/ d.ip[1] = << >>
    THEN {"fail"} ELSE {"ok", "fail"}

\* a plausible slip: the outcome is kept for a commit at the end of the batch
MutOutcomeDeferred(t, d, outcome, response_time) == t

\* validate_proxy: the store update of the outcome; WHERE ip = ? AND port = ?
\* with a None matches no row
OutcomeUpdate(t, d, outcome, response_time) ==
    IF d.ip = None \/ d.port = None THEN t
    ELSE IF outcome = "ok" THEN SuccessUpdate(t, d.ip[1], d.port[1], response_time)
    ELSE FailureUpdate(t, d.ip[1], d.port[1])

\* a plausible slip: the early return is left out
MutNeverEmpty(fetched) == FALSE

\* `if not all_proxies`
NothingFetched(fetched) == fetched = << >>

\* a plausible slip: get_proxy_pool refreshes again instead of querying
MutAfterRefreshRetry == IF call.op = "refresh_proxy_pool" THEN "done" ELSE "fetch"

\* the return of refresh_proxy_pool goes to its caller
AfterRefresh == IF call.op = "refresh_proxy_pool" THEN "done" ELSE "requery"

\* refresh_proxy_pool, step 1: fetch; the early return when nothing was fetched
Fetch ==
    /\ pc = "fetch"
    /\ \E got \in [Sources -> UNION { Responses(src) : src \in Sources }] :
          /\ \A src \in Sources : got[src] \in Responses(src)
          /\ responses' = got
          /\ \E fetched \in fetch_all_proxies(got) :
                /\ all_proxies' = fetched
                /\ IF NothingFetched(fetched)
                   THEN /\ report' = Some([success |-> FALSE,
                                           message |-> "No proxies fetched",
                                           stats |-> get_stats(store)])
                        /\ pc' = AfterRefresh
                   ELSE /\ report' = report
                        /\ pc' = "persist"
    /\ UNCHANGED <<dbvars, call, parsed_proxies, probes, valid_count, result, store0,
                   workvars>>

\* validate_proxies_batch: parse, then add_proxies_bulk
Persist ==
    /\ pc = "persist"
    /\ LET parsed == ParseAll(all_proxies)
           entries == [i \in DOMAIN parsed |-> BulkEntry(parsed[i])]
       IN /\ parsed_proxies' = parsed
          /\ store' = BulkInsert(store, seq, entries)
          /\ seq' = seq + BulkAdded(store, seq, entries)
    /\ pc' = "validate"
    /\ UNCHANGED <<now, tz, last, call, all_proxies, probes, valid_count, report,
                   result, store0, responses, workvars>>

\* one validate_proxy of the pool finishes: probe, then the update of the store
Validate ==
    /\ pc = "validate"
    /\ \E i \in Submitted(parsed_proxies) \ DOMAIN probes :
       \E outcome \in ProbeOutcomes(parsed_proxies[i]), rt \in Latencies :
          /\ store' = OutcomeUpdate(store, parsed_proxies[i], outcome, rt)
          /\ probes' = [j \in DOMAIN probes \cup {i} |->
                           IF j = i THEN outcome ELSE probes[j]]
          /\ valid_count' = valid_count + (IF outcome = "ok" THEN 1 ELSE 0)
    /\ UNCHANGED <<seq, now, tz, last, pc, call, all_proxies, parsed_proxies,
                   report, result, store0, responses, workvars>>

\* refresh_proxy_pool, step 3, once every future of the pool has completed
Prune ==
    /\ pc = "validate"
    /\ Submitted(parsed_proxies) \ DOMAIN probes = {}
    /\ store' = PruneDelete(store, RetentionDays)
    /\ pc' = "report"
    /\ UNCHANGED <<seq, now, tz, last, call, all_proxies, parsed_proxies, probes,
                   valid_count, report, result, store0, responses, workvars>>

\* refresh_proxy_pool: the final stats and the return
Report ==
    /\ pc = "report"
    /\ report' = Some([success |-> TRUE, valid_proxies |-> valid_count,
                       stats |-> get_stats(store)])
    /\ pc' = AfterRefresh
    /\ UNCHANGED <<dbvars, call, all_proxies, parsed_proxies, probes, valid_count,
                   result, store0, responses, workvars>>

----------------------------------------------------------------------------
(* src/src/proxy_manager.py: get_proxy_pool; src/src/proxy_provider.py *)

RandomLimit == 50       \* proxy_provider.py:53  get_proxies(limit=50, ...)
BestRate == 7           \* proxy_provider.py:68  min_success_rate=0.7, in tenths

\* `if country:`, `if protocol:`: given and not empty
Truthy(x) == x # None /\ x[1] # << >>

\* p['country'].upper() of a row whose country is NULL raises AttributeError
CountryRaises(q, c) ==
    Truthy(c.country) /\ \E i \in DOMAIN q : q[i].country = None

\* [p for p in proxies if p.get('country', '').upper() == country.upper()]
CountryFilter(q, c) ==
    IF Truthy(c.country)
    THEN SelectSeq(q, LAMBDA p : Upper(p.country[1]) = Upper(c.country[1]))
    ELSE q

\* [p for p in proxies if p.get('protocol', '').lower() == protocol.lower()]
ProtocolFilter(q, c) ==
    IF Truthy(c.protocol)
    THEN SelectSeq(q, LAMBDA p : Lower(p.protocol) = Lower(c.protocol[1]))
    ELSE q

\* a plausible slip: the list is returned whole
MutNoSlice(q, limit) == q

\* proxies[:limit] for limit >= 0
Slice(q, limit) == SubSeq(q, 1, Min(limit, Len(q)))

\* get_proxies after get_proxy_pool gave q: the list returned, or the raise
get_proxies(q, c) ==
    IF CountryRaises(q, c) THEN [kind |-> "raise", value |-> << >>]
    ELSE [kind |-> "list",
          value |-> Slice(ProtocolFilter(CountryFilter(q, c), c), c.limit)]

\* a plausible slip: random.choice without the `if proxies:` before it, which
\* raises IndexError on an empty list
MutChoiceUnguarded(l) ==
    IF l = << >> THEN { [kind |-> "raise", value |-> << >>] }
    ELSE { [kind |-> "record", value |-> << l[i] >>] : i \in DOMAIN l }

\* `if proxies: return random.choice(proxies)`, else `return None`
RandomChoice(l) ==
    IF l = << >> THEN { [kind |-> "none", value |-> << >>] }
    ELSE { [kind |-> "record", value |-> << l[i] >>] : i \in DOMAIN l }

\* what the call c may return once get_proxy_pool gave q
Returns(q, c) ==
    LET got == get_proxies(q, c) IN
    IF c.op = "get_proxy_pool" THEN { [kind |-> "list", value |-> q] }
    ELSE IF c.op = "get_random_proxy" /\ got.kind = "list"
    THEN RandomChoice(got.value)
    ELSE { got }

\* a plausible slip: get_proxies asks the pool for `limit` records only
MutQueryLimitSingle(c) == c.limit

\* the limit get_proxy_pool is given: get_proxies passes limit * 2
QueryLimit(c) == IF c.op = "get_proxy_pool" THEN c.limit ELSE c.limit * 2

\* the provider calls: get_proxies(limit, min_success_rate, country, protocol),
\* get_random_proxy(min_success_rate), get_best_proxies(limit)
GetCall(limit, rate, country, protocol) ==
    [op |-> "get_proxies", limit |-> limit, rate |-> rate,
     country |-> country, protocol |-> protocol]

RandomCall(rate) ==
    [op |-> "get_random_proxy", limit |-> RandomLimit, rate |-> rate,
     country |-> None, protocol |-> None]

\* a plausible slip: get_best_proxies keeps the default minimum
MutBestCallDefaultRate(limit) ==
    [op |-> "get_best_proxies", limit |-> limit, rate |-> 5,
     country |-> None, protocol |-> None]

BestCall(limit) ==
    [op |-> "get_best_proxies", limit |-> limit, rate |-> BestRate,
     country |-> None, protocol |-> None]

\* ProxyManager.get_proxy_pool(limit, min_success_rate) called directly;
\* limit 0 stands for the default None
PoolCall(limit, rate) ==
    [op |-> "get_proxy_pool", limit |-> limit, rate |-> rate,
     country |-> None, protocol |-> None]

\* min_success_rate in tenths: 5 is the default 0.5
SelCalls ==
    { GetCall(1, 5, None, None),
      GetCall(0, 10, None, None),
      GetCall(6, 5, None, None),
      GetCall(5, 5, Some(<<"u", "s">>), None),
      GetCall(2, 0, None, Some(<<"S", "5">>)),
      RandomCall(5),
      RandomCall(10),
      BestCall(1),
      BestCall(6),
      PoolCall(2, 5),
      PoolCall(0, 0) }

\* refresh_proxy_pool called directly (CLI, API, scheduler)
CallRefresh ==
    /\ pc = "idle"
    /\ call' = [NoCall EXCEPT !.op = "refresh_proxy_pool"]
    /\ pc' = "fetch"
    /\ UNCHANGED <<dbvars, all_proxies, parsed_proxies, probes, valid_count, report,
                   result, store0, responses, workvars>>

\* a selector call up to the first query of get_proxy_pool: it returns from
\* there, or the pool is too small and it goes into refresh_proxy_pool
CallSelector ==
    /\ pc = "idle"
    /\ \E c \in SelCalls :
          /\ call' = c
          /\ \E q \in get_active_proxies(store, QueryLimit(c), c.rate) :
                IF Len(q) < MIN_PROXIES
                THEN pc' = "fetch" /\ result' = result
                ELSE pc' = "done" /\ result' \in Returns(q, c)
    /\ UNCHANGED <<dbvars, all_proxies, parsed_proxies, probes, valid_count, report,
                   store0, responses, workvars>>

\* get_proxy_pool after the refresh: the second query, and the rest of the
\* provider call
Requery ==
    /\ pc = "requery"
    /\ \E q \in get_active_proxies(store, QueryLimit(call), call.rate) :
          result' \in Returns(q, call)
    /\ pc' = "done"
    /\ UNCHANGED <<dbvars, call, all_proxies, parsed_proxies, probes, valid_count,
                   report, store0, responses, workvars>>

----------------------------------------------------------------------------
(* SpecPool: one call of the manager or the provider on a store the program *)
(* can have built, with the clock of a UTC host standing still.            *)

HostP == <<"p">>

\* a row as earlier runs left it
OldRow(id, ip, port, protocol, country, s, f, checked, active) ==
    [id |-> id, ip |-> ip, port |-> port, protocol |-> protocol,
     country |-> country, anonymity |-> None,
     speed |-> IF s > 0 THEN Some(1) ELSE None,
     success_count |-> s, fail_count |-> f,
     last_checked |-> Some(checked),
     last_used |-> IF s > 0 THEN Some(checked) ELSE None,
     is_active |-> active]

\* a small pool: a working record, a record retired long ago, a record retired
\* just now, a record added and never validated
SmallStore ==
    << OldRow(1, HostB, 2, Socks, Some(<<"U", "S">>), 2, 1, 0, TRUE),
       OldRow(2, HostB, 3, Http, None, 0, 6, 0 - (RetentionDays * TicksPerDay + 1), FALSE),
       OldRow(3, HostB, 4, Http, None, 1, 7, 0, FALSE),
       OldRow(4, HostB, 5, Http, None, 0, 0, 0, TRUE) >>

\* a pool of MIN_PROXIES working records with country tags, no two with the
\* same counters
BigStore ==
    [i \in 1..MIN_PROXIES |->
        OldRow(i, HostP, i, IF i % 2 = 0 THEN Socks ELSE Http,
               Some(IF i % 2 = 0 THEN <<"c", "a">> ELSE <<"U", "S">>),
               (i + 1) \div 2, IF i % 2 = 0 THEN 1 ELSE 0, 0, TRUE)]

\* a pool whose four best records are http records and whose two socks5
\* records have the weakest counters
TieredStore ==
    [i \in 1..6 |->
        IF i <= 4
        THEN OldRow(i, HostP, i, Http, Some(<<"U", "S">>), 5 - i, 0, 0, TRUE)
        ELSE OldRow(i, HostP, i, Socks, Some(<<"c", "a">>), 1, i - 4, 0, TRUE)]

PoolStores == { << >>, SmallStore, BigStore, TieredStore }

PoolInit ==
    /\ store \in PoolStores
    /\ seq = Len(store)
    /\ now = 0
    /\ tz = 0
    /\ last = [op |-> "init", key |-> 0, ret |-> 0]
    /\ RunIdle

PoolNext ==
    \/ CallRefresh
    \/ CallSelector
    \/ Fetch
    \/ Persist
    \/ Validate
    \/ Prune
    \/ Report
    \/ Requery

SpecPool == PoolInit /\ [][PoolNext]_vars

----------------------------------------------------------------------------
(* SpecParse: parse_proxy_string on one token, the tokens put together from *)
(* a scheme part, a host, a colon, a port and a tail.                       *)

TokenSchemes == { << >>, <<"h", ":", "/", "/">>, <<"S", "5", ":", "/", "/">> }
TokenHosts == { << >>, <<"a">>, <<"A", "b">>, <<" ", "a">> }
TokenColons == { << >>, <<":">> }
TokenPorts == { << >>, <<"1">>, <<"8", "0">>, <<"x">>, <<"9", "9", "9", "9", "9">>, <<"1", " ">> }
TokenTails == { << >>, <<":", "2">>, <<"/">> }

Tokens ==
    { sch \o h \o c \o n \o t :
        sch \in TokenSchemes, h \in TokenHosts, c \in TokenColons,
        n \in TokenPorts, t \in TokenTails }

\* parse_proxy_string(proxy_str) called on its own
CallParse ==
    /\ pc = "idle"
    /\ \E tok \in Tokens :
          /\ all_proxies' = << tok >>
          /\ call' = [NoCall EXCEPT !.op = "parse_proxy_string"]
    /\ pc' = "parse"
    /\ UNCHANGED <<dbvars, parsed_proxies, probes, valid_count, report, result, store0,
                   responses, workvars>>

\* its return: the dict, or None
ParseReturn ==
    /\ pc = "parse"
    /\ LET d == parse_proxy_string(all_proxies[1])
       IN result' = IF d = None THEN [kind |-> "none", value |-> << >>]
                    ELSE [kind |-> "dict", value |-> d]
    /\ pc' = "done"
    /\ UNCHANGED <<dbvars, call, all_proxies, parsed_proxies, probes, valid_count, report,
                   store0, responses, workvars>>

ParseInit ==
    /\ store = << >>
    /\ seq = 0
    /\ now = 0
    /\ tz = 0
    /\ last = [op |-> "init", key |-> 0, ret |-> 0]
    /\ RunIdle

ParseNext ==
    \/ CallParse
    \/ ParseReturn

SpecParse == ParseInit /\ [][ParseNext]_vars

----------------------------------------------------------------------------
(* src/src/proxy_manager.py: a refresh run over every configured source,   *)
(* with more candidates than validate_proxies_batch validates, seen at the  *)
(* grain of the two worker pools.  The pools take their work in the order   *)
(* of submission; here the probes return, and the store writes commit, in   *)
(* that order too.                                                          *)

SourceCount == 8        \* config.py:9  PROXY_SOURCES, 8 entries
FetchWorkers == 5       \* proxy_manager.py:51  ThreadPoolExecutor(max_workers=5)
ValidateWorkers == 20   \* proxy_manager.py:128  max_workers: int = 20
BlockSize == 13         \* candidates in the body of one source
MaxWaiting == 2         \* validations between the return of the probe and the commit

BatchSources == 1..SourceCount

Lowest(S) == CHOOSE i \in S : \A j \in S : i <= j

\* str(n) of a port number
RECURSIVE PortText(_)
PortText(n) ==
    LET digit == CHOOSE c \in DigitChars : DigitVal(c) = n % 10
    IN IF n < 10 THEN << digit >> ELSE PortText(n \div 10) \o << digit >>

\* the lines "p:lo" .. "p:hi" of a source body
RECURSIVE BatchLines(_, _)
BatchLines(lo, hi) ==
    IF lo > hi THEN << >>
    ELSE HostP \o <<":">> \o PortText(lo)
            \o (IF lo < hi THEN << Newline >> ELSE << >>)
            \o BatchLines(lo + 1, hi)

\* what source src may answer: its own block of candidates; the last source
\* may be down
BatchResponses(src) ==
    LET body == BatchLines((src - 1) * BlockSize + 1, src * BlockSize)
    IN IF src = SourceCount
       THEN { [status |-> 0, text |-> << >>], [status |-> HttpOk, text |-> body] }
       ELSE { [status |-> HttpOk, text |-> body] }

\* all_proxies.extend(proxies) over the sources
RECURSIVE Merged(_, _)
Merged(answers, src) ==
    IF src > SourceCount THEN << >>
    ELSE FetchResult(answers[src]) \o Merged(answers, src + 1)

Reverse(q) == [i \in DOMAIN q |-> q[Len(q) + 1 - i]]

\* list(set(all_proxies)) of tokens that are all different: two of its orders
BatchOrders(answers) == { Merged(answers, 1), Reverse(Merged(answers, 1)) }

\* a plausible slip: one thread per submitted item
MutWorkerAlwaysFree(busy, workers) == TRUE

\* ThreadPoolExecutor: a queued item starts when fewer than max_workers run
WorkerFree(busy, workers) == Cardinality(busy) < workers

\* fetch_all_proxies: the pool starts the fetch of the next source
StartFetch ==
    /\ pc = "fetch"
    /\ WorkerFree(fetching, FetchWorkers)
    /\ LET queued == BatchSources \ (fetching \cup DOMAIN responses)
       IN /\ queued # {}
          /\ fetching' = fetching \cup { Lowest(queued) }
    /\ UNCHANGED <<dbvars, pc, call, all_proxies, parsed_proxies, probes, valid_count,
                   report, result, store0, responses, inflight, stats>>

\* fetch_proxies_from_source of one source returns
EndFetch ==
    /\ pc = "fetch"
    /\ \E src \in fetching : \E answer \in BatchResponses(src) :
          /\ responses' = [s \in DOMAIN responses \cup {src} |->
                              IF s = src THEN answer ELSE responses[s]]
          /\ fetching' = fetching \ {src}
    /\ UNCHANGED <<dbvars, pc, call, all_proxies, parsed_proxies, probes, valid_count,
                   report, result, store0, inflight, stats>>

\* fetch_all_proxies returns once every future has completed; the early
\* return of refresh_proxy_pool when nothing was fetched
Merge ==
    /\ pc = "fetch"
    /\ DOMAIN responses = BatchSources
    /\ \E fetched \in BatchOrders(responses) :
          /\ all_proxies' = fetched
          /\ IF NothingFetched(fetched)
             THEN /\ report' = Some([success |-> FALSE,
                                     message |-> "No proxies fetched",
                                     stats |-> get_stats(store)])
                  /\ pc' = AfterRefresh
             ELSE /\ report' = report
                  /\ pc' = "persist"
    /\ UNCHANGED <<dbvars, call, parsed_proxies, probes, valid_count, result, store0,
                   responses, workvars>>

\* the candidates that answer the probe with status 200
AlivePorts == {1, 2, SourceCount * BlockSize}

\* requests.get through the candidate
BatchOutcome(d) == IF d.port[1] \in AlivePorts THEN "ok" ELSE "fail"

\* validate_proxies_batch: the pool starts the next validate_proxy
StartProbe ==
    /\ pc = "validate"
    /\ WorkerFree(DOMAIN inflight, ValidateWorkers)
    /\ LET queued == Submitted(parsed_proxies) \ (DOMAIN inflight \cup DOMAIN probes)
       IN /\ queued # {}
          /\ inflight' = [j \in DOMAIN inflight \cup { Lowest(queued) } |->
                             IF j \in DOMAIN inflight THEN inflight[j] ELSE "probe"]
    /\ UNCHANGED <<dbvars, pc, call, all_proxies, parsed_proxies, probes, valid_count,
                   report, result, store0, responses, fetching, stats>>

\* validate_proxy: requests.get returns or raises; the store write is next
ProbeReturns ==
    /\ pc = "validate"
    /\ LET out == { i \in DOMAIN inflight : inflight[i] = "probe" }
       IN /\ out # {}
          /\ Cardinality(DOMAIN inflight \ out) < MaxWaiting
          /\ inflight' = [inflight EXCEPT
                             ![Lowest(out)] = BatchOutcome(parsed_proxies[Lowest(out)])]
    /\ UNCHANGED <<dbvars, pc, call, all_proxies, parsed_proxies, probes, valid_count,
                   report, result, store0, responses, fetching, stats>>

\* validate_proxy: the update of the store commits and the call returns; the
\* loop over as_completed counts the result
Commit ==
    /\ pc = "validate"
    /\ LET waiting == { i \in DOMAIN inflight : inflight[i] # "probe" }
       IN /\ waiting # {}
          /\ LET i == Lowest(waiting)
             IN \E rt \in Latencies :
                   /\ store' = OutcomeUpdate(store, parsed_proxies[i], inflight[i], rt)
                   /\ probes' = [j \in DOMAIN probes \cup {i} |->
                                    IF j = i THEN inflight[i] ELSE probes[j]]
                   /\ valid_count' = valid_count + (IF inflight[i] = "ok" THEN 1 ELSE 0)
                   /\ inflight' = [j \in DOMAIN inflight \ {i} |-> inflight[j]]
    /\ UNCHANGED <<seq, now, tz, last, pc, call, all_proxies, parsed_proxies,
                   report, result, store0, responses, fetching, stats>>

BatchInit ==
    /\ store = << >>
    /\ seq = 0
    /\ now = 0
    /\ tz = 0
    /\ last = [op |-> "init", key |-> 0, ret |-> 0]
    /\ RunIdle

BatchNext ==
    \/ CallRefresh
    \/ StartFetch
    \/ EndFetch
    \/ Merge
    \/ Persist
    \/ StartProbe
    \/ ProbeReturns
    \/ Commit
    \/ Prune
    \/ Report

\* a worker thread of a pool that can take a step does take one: a free
\* worker takes the next item of the queue, a fetch returns within its
\* timeout, a probe returns or times out, a store update returns
SpecBatch ==
    /\ BatchInit
    /\ [][BatchNext]_vars
    /\ WF_vars(StartFetch \/ EndFetch)
    /\ WF_vars(StartProbe \/ ProbeReturns \/ Commit)

----------------------------------------------------------------------------
(* src/src/proxy_manager.py, src/src/database.py: a refresh run in which a  *)
(* statement of the store may raise (sqlite3.OperationalError: the database *)
(* is locked, the disk is full) on one candidate.                           *)

MaxFaults == 1          \* store statements that raise in one run

\* the store errors of the run so far: the INSERT that raised, the
\* validations one of whose updates raised
FaultsSoFar ==
    (IF last.op = "add_proxies_bulk" /\ last.key # 0 THEN 1 ELSE 0)
    + Cardinality({ i \in DOMAIN probes : probes[i] \in {"ok_unwritten", "raised"} })

\* a plausible slip: the exception of an INSERT ends the loop
MutAbortAtError(entries, k) ==
    IF k = 0 THEN entries ELSE SubSeq(entries, 1, k - 1)

\* add_proxies_bulk: `except Exception: continue`; the entries whose INSERT
\* is executed when the one of entry k raises (k = 0: none raises)
AfterInsertError(entries, k) ==
    IF k = 0 THEN entries
    ELSE [i \in 1..(Len(entries) - 1) |-> IF i < k THEN entries[i] ELSE entries[i + 1]]

\* validate_proxies_batch: parse, then add_proxies_bulk, one INSERT of which
\* may raise
PersistFaulty ==
    /\ pc = "persist"
    /\ \E parsed \in { ParseAll(all_proxies) } :
       \E k \in 0..Len(parsed) :
       \E entries \in { AfterInsertError([i \in DOMAIN parsed |-> BulkEntry(parsed[i])], k) } :
       \E added \in { BulkAdded(store, seq, entries) } :
          /\ k # 0 => FaultsSoFar < MaxFaults
          /\ parsed_proxies' = parsed
          /\ store' = BulkInsert(store, seq, entries)
          /\ seq' = seq + added
          /\ last' = [op |-> "add_proxies_bulk", key |-> k, ret |-> added]
    /\ pc' = "validate"
    /\ UNCHANGED <<now, tz, call, all_proxies, probes, valid_count, report,
                   result, store0, responses, workvars>>

\* how a validate_proxy may end: "ok" and "fail" as in ProbeOutcomes;
\* "ok_unwritten": the probe gave 200, update_proxy_success raised inside
\* the try, and update_proxy_failure ran; "raised": the probe failed and
\* update_proxy_failure raised, so that validate_proxy raised
ValidationEnds(d) ==
    ProbeOutcomes(d)
    \cup (IF FaultsSoFar < MaxFaults
          THEN { IF outcome = "ok" THEN "ok_unwritten" ELSE "raised" :
                 outcome \in ProbeOutcomes(d) }
          ELSE {})

\* the store after the validation of d: a statement that raises is rolled
\* back by get_connection
EndUpdate(t, d, end, response_time) ==
    CASE end = "ok" -> OutcomeUpdate(t, d, "ok", response_time)
      [] end = "fail" -> OutcomeUpdate(t, d, "fail", response_time)
      [] end = "ok_unwritten" -> OutcomeUpdate(t, d, "fail", response_time)
      [] end = "raised" -> t

\* one validate_proxy of the pool finishes; `except Exception: pass` of the
\* loop over as_completed drops a validation that raised
ValidateFaulty ==
    /\ pc = "validate"
    /\ \E i \in Submitted(parsed_proxies) \ DOMAIN probes :
       \E end \in ValidationEnds(parsed_proxies[i]), rt \in Latencies :
          /\ store' = EndUpdate(store, parsed_proxies[i], end, rt)
          /\ probes' = [j \in DOMAIN probes \cup {i} |->
                           IF j = i THEN end ELSE probes[j]]
          /\ valid_count' = valid_count + (IF end = "ok" THEN 1 ELSE 0)
    /\ UNCHANGED <<seq, now, tz, last, pc, call, all_proxies, parsed_proxies,
                   report, result, store0, responses, workvars>>

FaultInit ==
    /\ store = SmallStore
    /\ seq = Len(store)
    /\ now = 0
    /\ tz = 0
    /\ last = [op |-> "init", key |-> 0, ret |-> 0]
    /\ RunIdle

FaultNext ==
    \/ CallRefresh
    \/ Fetch
    \/ PersistFaulty
    \/ ValidateFaulty
    \/ Prune
    \/ Report

\* once the candidates are fetched the run goes on as long as it can: every
\* probe returns or times out
SpecFaults ==
    /\ FaultInit
    /\ [][FaultNext]_vars
    /\ WF_vars(PersistFaulty)
    /\ WF_vars(ValidateFaulty)
    /\ WF_vars(Prune \/ Report)


----------------------------------------------------------------------------
(* src/src/database.py: get_stats running in one thread or process (the    *)
(* health and stats endpoints of the API, the CLI) while another one       *)
(* writes to the store. Each SELECT of get_stats is a read of the          *)
(* committed state at its moment: the sqlite3 connection opens no          *)
(* transaction for a SELECT, so a writer may commit between two of them.   *)
(* The writer's calls are those of a refresh on one record: the insert,   *)
(* the outcome updates, the prune.                                         *)

\* SELECT COUNT(*) FROM proxies WHERE is_active = 1
ActiveCount(t) == Len(SelectSeq(t, LAMBDA r : r.is_active))

\* get_stats: the connection is opened and SELECT COUNT(*) FROM proxies runs
StatsTotal ==
    /\ stats.pc \in {"idle", "done"}
    /\ stats' = [NoStats EXCEPT !.pc = "total", !.total = Len(store)]
    /\ UNCHANGED <<dbvars, pc, call, all_proxies, parsed_proxies, probes, valid_count,
                   report, result, store0, responses, fetching, inflight>>

\* get_stats: the count of the active records
StatsActive ==
    /\ stats.pc = "total"
    /\ stats' = [stats EXCEPT !.pc = "active", !.active = ActiveCount(store)]
    /\ UNCHANGED <<dbvars, pc, call, all_proxies, parsed_proxies, probes, valid_count,
                   report, result, store0, responses, fetching, inflight>>

\* get_stats: the average rate, and the return
StatsAverage ==
    /\ stats.pc = "active"
    /\ stats' = [stats EXCEPT !.pc = "done", !.average = AverageRate(store)]
    /\ UNCHANGED <<dbvars, pc, call, all_proxies, parsed_proxies, probes, valid_count,
                   report, result, store0, responses, fetching, inflight>>

\* the dictionary get_stats returns
StatsReturned ==
    [total_proxies |-> stats.total, active_proxies |-> stats.active,
     inactive_proxies |-> stats.total - stats.active,
     average_success_rate |-> stats.average]

StatsInit ==
    /\ store = << >>
    /\ seq = 0
    /\ now = 0
    /\ tz = 0
    /\ last = [op |-> "init", key |-> 0, ret |-> 0]
    /\ RunIdle

StatsNext ==
    \/ life_add
    \/ life_success
    \/ life_failure
    \/ remove_inactive_proxies
    \/ Tick
    \/ StatsTotal
    \/ StatsActive
    \/ StatsAverage

SpecStats == StatsInit /\ [][StatsNext]_vars

----------------------------------------------------------------------------
(* Properties of the store *)

\* the rows of table t with the (ip, port) of k
RowsOf(t, k) == { i \in DOMAIN t : t[i].ip = k.ip /\ t[i].port = k.port }

\* C1: a recordFailure on an active record leaves it inactive if and only
\* if, after the increment, fail_count > 5 and
\* fail_count / (success_count + fail_count) > 0.7; otherwise it stays active.
C1_FailureDeactivatesIff ==
    [][ last'.op = "update_proxy_failure" =>
          \A i \in RowsOf(store, last'.key) :
              store[i].is_active =>
                 /\ Len(store') = Len(store)
                 /\ store'[i].fail_count = store[i].fail_count + 1
                 /\ store'[i].success_count = store[i].success_count
                 /\ (~store'[i].is_active) <=>
                       ( /\ store'[i].fail_count > 5
                         /\ 10 * store'[i].fail_count >
                              7 * (store'[i].success_count + store'[i].fail_count) )
      ]_vars

\* a failure has just taken a record with 3 successes from 7 to 8 failures,
\* and with that from active to inactive
C1_Witness ==
    /\ last.op = "update_proxy_failure"
    /\ \E i \in RowsOf(store, last.key) :
          /\ store[i].success_count = 3
          /\ store[i].fail_count = 8
          /\ ~store[i].is_active

\* C2: after any recordSuccess the record is active, whatever its counters.
C2_SuccessReactivates ==
    last.op = "update_proxy_success" =>
        \A i \in RowsOf(store, last.key) : store[i].is_active

\* a record that never succeeded and failed more than 5 times (it was
\* inactive) has just had its first success and is active
C2_Witness ==
    /\ last.op = "update_proxy_success"
    /\ \E i \in RowsOf(store, last.key) :
          /\ store[i].success_count = 1
          /\ store[i].fail_count > 5
          /\ store[i].is_active

\* C3: adding a (host, port) that is already in the store, through add_proxy
\* or add_proxies_bulk and with any tags, leaves the store unchanged (one
\* record for the pair, its counters, flag and protocol as they were) and is
\* reported as not inserted: add_proxy returns False, the bulk add counts
\* only the pairs that were not in the store.
C3_ReAddIsNoOp ==
    [][ /\ (last'.op = "add_proxy" /\ RowsOf(store, last'.key) # {}) =>
              (store' = store /\ last'.ret = 0)
        /\ last'.op = "add_proxies_bulk" =>
              /\ \A j \in DOMAIN last'.key :
                    RowsOf(store, last'.key[j]) # {} =>
                        /\ RowsOf(store', last'.key[j]) = RowsOf(store, last'.key[j])
                        /\ \A i \in RowsOf(store, last'.key[j]) : store'[i] = store[i]
              /\ last'.ret =
                    Cardinality({ k \in { last'.key[j] : j \in DOMAIN last'.key } :
                                    RowsOf(store, k) = {} })
        /\ \A k \in Keys : Cardinality(RowsOf(store', k)) <= 1
      ]_vars

\* add_proxy has just been refused for a pair whose record has outcomes
C3_Witness ==
    /\ last.op = "add_proxy"
    /\ last.ret = 0
    /\ \E i \in RowsOf(store, last.key) :
          /\ store[i].success_count > 0
          /\ store[i].fail_count > 0
          /\ store[i].protocol = Socks

\* C4: as long as a record exists its success_count and fail_count never
\* decrease; a record leaves the store only by prune, and a record that
\* enters the store starts with both counters 0.
C4_CountersMonotone ==
    [][ /\ \A i \in DOMAIN store : \A j \in DOMAIN store' :
              store'[j].id = store[i].id =>
                 /\ store'[j].success_count >= store[i].success_count
                 /\ store'[j].fail_count >= store[i].fail_count
        /\ \A j \in DOMAIN store' :
              (\A i \in DOMAIN store : store[i].id # store'[j].id) =>
                 /\ store'[j].success_count = 0
                 /\ store'[j].fail_count = 0
        /\ (\E i \in DOMAIN store : \A j \in DOMAIN store' : store'[j].id # store[i].id)
              => last'.op = "remove_inactive_proxies"
      ]_vars

\* the pair's first record was pruned, and the record inserted after that
\* has counted up again
C4_Witness ==
    \E i \in DOMAIN store :
        /\ store[i].id > 1
        /\ store[i].success_count > 0
        /\ store[i].fail_count > FailThreshold

\* C5: prune(d) deletes exactly the records that are inactive and whose
\* last validation is more than d days old, and returns their number; the
\* other records stay, unchanged.  last_checked holds the host's local time
\* of that validation, so its age is taken from the UTC time it stands for.
Age(r) == now - (r.last_checked[1] - tz)

C5_PruneExactlyStale ==
    [][ last'.op = "remove_inactive_proxies" =>
          /\ store' = SelectSeq(store,
                 LAMBDA r : ~(~r.is_active /\ Age(r) > last'.key * TicksPerDay))
          /\ last'.ret = Len(store) - Len(store')
      ]_vars

----------------------------------------------------------------------------
(* Properties of the provider and of the refresh run *)

\* the provider call has returned a list
ReturnedList ==
    /\ pc = "done"
    /\ call.op \in {"get_proxies", "get_best_proxies"}
    /\ result.kind = "list"

\* the rows of t a query with this minimum can return, written out
Eligible(t, rate) ==
    { i \in DOMAIN t :
        /\ t[i].is_active
        /\ \/ t[i].success_count + t[i].fail_count = 0
           \/ 10 * t[i].success_count >= rate * (t[i].success_count + t[i].fail_count) }

\* C6: for every limit N >= 0, every minimum rate and every filter,
\* get_proxies returns at most N records, with or without a refresh.
C6_AtMostLimit ==
    (ReturnedList /\ call.limit >= 0) => Len(result.value) <= call.limit

\* a call that went through a refresh returned its full limit with more
\* records eligible than that
C6_Witness ==
    /\ ReturnedList
    /\ report # None
    /\ call.limit > 0
    /\ Len(result.value) = call.limit
    /\ Cardinality(Eligible(store, call.rate)) > call.limit

\* C7 as stated: every returned record has success_rate >= the minimum, the
\* rate of a record without outcomes being 0.
C7_EveryRateAtLeastMin ==
    ReturnedList =>
        \A i \in DOMAIN result.value :
            LET p == result.value[i] IN
            IF p.success_count + p.fail_count = 0
            THEN 0 >= call.rate
            ELSE 10 * p.success_count >= call.rate * (p.success_count + p.fail_count)

\* C7 amended: every returned record either has no outcome yet or has
\* success_count / (success_count + fail_count) >= the minimum.
C7_UntestedOrRateAtLeastMin ==
    ReturnedList =>
        \A i \in DOMAIN result.value :
            LET p == result.value[i] IN
            \/ p.success_count + p.fail_count = 0
            \/ 10 * p.success_count >= call.rate * (p.success_count + p.fail_count)

\* a list returned under a positive minimum holds a record without outcomes
\* and a record with outcomes
C7_Witness ==
    /\ ReturnedList
    /\ call.rate > 0
    /\ \E i \in DOMAIN result.value :
          result.value[i].success_count + result.value[i].fail_count = 0
    /\ \E i \in DOMAIN result.value :
          result.value[i].success_count > 0 /\ result.value[i].fail_count > 0

\* the (host, port) pairs of the candidates with a host and a port
ValidKeys ==
    { [ip |-> parsed_proxies[i].ip[1], port |-> parsed_proxies[i].port[1]] :
        i \in { j \in DOMAIN parsed_proxies :
                  /\ parsed_proxies[j].ip # None
                  /\ parsed_proxies[j].port # None
                  /\ parsed_proxies[j].ip[1] # << >> } }

\* the rows the run inserted
NewRows == { i \in DOMAIN store : \A j \in DOMAIN store0 : store0[j].id # store[i].id }

\* a direct refresh run has returned; the store held none of the candidates
\* when it began, and every probe failed
AllFailedRun ==
    /\ pc = "done"
    /\ call.op = "refresh_proxy_pool"
    /\ all_proxies # << >>
    /\ \A i \in DOMAIN probes : probes[i] = "fail"
    /\ \A j \in DOMAIN store0, i \in DOMAIN parsed_proxies :
          ~(parsed_proxies[i].ip = Some(store0[j].ip)
            /\ parsed_proxies[i].port = Some(store0[j].port))

\* C8: a refresh run over a store that holds none of the fetched proxies, all
\* of whose probes fail, ends with exactly one new record per distinct valid
\* (host, port), none for malformed tokens, each with success_count = 0,
\* fail_count = 1 and active, and reports success with valid_proxies = 0.
C8_AllFailRefresh ==
    AllFailedRun =>
        /\ \A k \in ValidKeys :
              Cardinality({ i \in NewRows :
                              store[i].ip = k.ip /\ store[i].port = k.port }) = 1
        /\ \A i \in NewRows :
              /\ [ip |-> store[i].ip, port |-> store[i].port] \in ValidKeys
              /\ store[i].success_count = 0
              /\ store[i].fail_count = 1
              /\ store[i].is_active
        /\ report[1].success
        /\ report[1].valid_proxies = 0

\* C9: when every source fails or gives no candidate token, the refresh
\* reports success = false with the current stats and changes nothing in the
\* store: no insert, no counter or flag update, no validation, no prune.
C9_EmptyFetchNoMutation ==
    (report # None /\ all_proxies = << >>) =>
        /\ ~report[1].success
        /\ report[1].stats = get_stats(store0)
        /\ store = store0
        /\ seq = Len(store0)
        /\ parsed_proxies = << >>
        /\ probes = << >>

\* a direct refresh that fetched nothing has returned, over a store that
\* holds a record the prune step would have deleted
C9_Witness ==
    /\ pc = "done"
    /\ call.op = "refresh_proxy_pool"
    /\ report # None
    /\ all_proxies = << >>
    /\ \E i \in DOMAIN store : PruneCond(store[i], RetentionDays)

\* C10: get_random_proxy returns None, without raising, when no record
\* qualifies after the refresh it triggered; a record it returns is one of
\* those get_proxies(limit=50, min_success_rate) returns in that state.
C10_RandomAbsentOrMember ==
    (pc = "done" /\ call.op = "get_random_proxy") =>
        /\ Eligible(store, call.rate) = {} => result.kind = "none"
        /\ result.kind = "record" =>
              \E q \in get_active_proxies(store, RandomLimit * 2, call.rate) :
                 LET got == get_proxies(q, GetCall(RandomLimit, call.rate, None, None))
                 IN got.kind = "list" /\ result.value[1] \in Range(got.value)

\* get_random_proxy returned None after a refresh that stored candidates none
\* of which qualifies
C10_Witness ==
    /\ pc = "done"
    /\ call.op = "get_random_proxy"
    /\ result.kind = "none"
    /\ report # None
    /\ store # << >>

\* the calls that go through get_proxy_pool
PoolOps == {"get_proxies", "get_random_proxy", "get_best_proxies", "get_proxy_pool"}

\* C11: a selector call whose first query finds fewer qualifying records than
\* the minimum runs one refresh, then queries once more and returns that
\* result even if it is still below the minimum; no call refreshes twice.
C11_OneRefreshThenRequery ==
    [][ /\ (pc = "idle" /\ call'.op \in PoolOps
              /\ Cardinality(Eligible(store, call'.rate)) < MIN_PROXIES)
           => (pc' = "fetch" /\ store' = store)
        /\ pc' = "fetch" => pc = "idle"
        /\ (pc # "requery" /\ pc' = "requery")
           => (report' # None /\ call.op \in PoolOps)
        /\ pc = "requery"
           => /\ pc' = "done"
              /\ store' = store
              /\ report' = report
              /\ result'.kind # "pending" ]_vars

\* a call returned, after its one refresh, a list shorter than the minimum
\* from a store that still holds fewer qualifying records than the minimum
C11_Witness ==
    /\ ReturnedList
    /\ report # None
    /\ report[1].success
    /\ result.value # << >>
    /\ Cardinality(Eligible(store, call.rate)) < MIN_PROXIES

\* the sources of the run that answered with status 200
Succeeded == { src \in DOMAIN responses : responses[src].status = 200 }

\* C12: whatever subset of the sources fails, fetch_all_proxies returns
\* exactly the union of the candidate tokens of the sources that succeeded,
\* each token once; a failing source contributes nothing and removes nothing.
C12_FetchIsUnionOfSucceeded ==
    responses # << >> =>
        /\ \A i, j \in DOMAIN all_proxies : all_proxies[i] = all_proxies[j] => i = j
        /\ Range(all_proxies) =
              UNION { Range(KeptLines(responses[src].text)) : src \in Succeeded }

\* one source raised, the other answered, and the tokens of the one that
\* answered were fetched
C12_Witness ==
    /\ responses # << >>
    /\ \E src \in DOMAIN responses : responses[src].status = 0
    /\ Succeeded # {}
    /\ Len(all_proxies) > 1

\* parse_proxy_string has returned
Parsed == pc = "done" /\ call.op = "parse_proxy_string"

\* what parse_proxy_string returned for (host, port, protocol)
ParsedAs(host, port, protocol) ==
    /\ result.kind = "dict"
    /\ result.value = << [ip |-> << host >>, port |-> << port >>, protocol |-> protocol] >>

\* hosts, ports and schemes of valid tokens, with the value of the port and
\* the lower-case spelling
GoodHosts == { [text |-> <<"a">>, lower |-> <<"a">>],
               [text |-> <<"A", "b">>, lower |-> <<"a", "b">>] }
GoodPorts == { [text |-> <<"1">>, value |-> 1],
               [text |-> <<"8", "0">>, value |-> 80],
               [text |-> <<"9", "9", "9", "9", "9">>, value |-> 99999] }
GoodSchemes == { [text |-> <<"h">>, lower |-> <<"h">>],
                 [text |-> <<"S", "5">>, lower |-> <<"s", "5">>] }

\* the token is bare: it holds no "://"
BareToken(tok) ==
    \A i \in 1..(Len(tok) - 2) : ~(tok[i] = ":" /\ tok[i + 1] = "/" /\ tok[i + 2] = "/")

Colons(tok) == Cardinality({ i \in DOMAIN tok : tok[i] = ":" })

\* the token classes the claim calls invalid give None
InvalidGiveNone(tok) ==
    /\ Colons(tok) = 0 => result.kind = "none"
    /\ (BareToken(tok) /\ Colons(tok) > 1) => result.kind = "none"
    /\ \A h \in GoodHosts, sch \in GoodSchemes :
          tok \in { h.text \o <<":", "x">>,
                    sch.text \o <<":", "/", "/">> \o h.text \o <<":", "x">> }
             => result.kind = "none"

\* C13 as stated: host:port gives (host, port, "http"), scheme://host:port
\* gives (host, port, scheme); no colon, more than one colon in the bare form
\* or a non-numeric port give None.
C13_ParseAsStated ==
    Parsed =>
        LET tok == all_proxies[1] IN
        /\ \A h \in GoodHosts, n \in GoodPorts :
              /\ tok = h.text \o <<":">> \o n.text
                    => ParsedAs(h.text, n.value, <<"h", "t", "t", "p">>)
              /\ \A sch \in GoodSchemes :
                    tok = sch.text \o <<":", "/", "/">> \o h.text \o <<":">> \o n.text
                       => ParsedAs(h.text, n.value, sch.text)
        /\ InvalidGiveNone(tok)

\* C13 amended: host:port gives (host, port, "http"); scheme://host:port with
\* a port up to 65535 gives (host, port, scheme) with host and scheme in
\* lower case, and None with a larger port; no colon, more than one colon in
\* the bare form or a non-numeric port give None.
C13_ParseLowerCasesUrl ==
    Parsed =>
        LET tok == all_proxies[1] IN
        /\ \A h \in GoodHosts, n \in GoodPorts :
              /\ tok = h.text \o <<":">> \o n.text
                    => ParsedAs(h.text, n.value, <<"h", "t", "t", "p">>)
              /\ \A sch \in GoodSchemes :
                    tok = sch.text \o <<":", "/", "/">> \o h.text \o <<":">> \o n.text
                       => IF n.value <= 65535
                          THEN ParsedAs(h.lower, n.value, sch.lower)
                          ELSE result.kind = "none"
        /\ InvalidGiveNone(tok)

\* "S5://Ab:80" was parsed to ("ab", 80, "s5")
C13_Witness ==
    /\ Parsed
    /\ all_proxies[1] = <<"S", "5", ":", "/", "/", "A", "b", ":", "8", "0">>
    /\ ParsedAs(<<"a", "b">>, 80, <<"s", "5">>)

\* C14: every token parse_proxy_string accepts yields a non-empty host and a
\* numeric port; an empty host or a missing port is a parse failure.
C14_AcceptedHasHostAndPort ==
    (Parsed /\ result.kind = "dict") =>
        /\ result.value[1].ip # << >>
        /\ result.value[1].port # << >>
        /\ result.value[1].ip # << << >> >>

\* C15: a validation that succeeds changes the record in one step:
\* success_count + 1, latency = the measured time, active, last_validated =
\* the time of the probe; fail_count unchanged.
C15_SuccessFrame ==
    [][ last'.op = "update_proxy_success" =>
          /\ Len(store') = Len(store)
          /\ \A i \in RowsOf(store, last'.key) :
                /\ store'[i].success_count = store[i].success_count + 1
                /\ store'[i].fail_count = store[i].fail_count
                /\ store'[i].speed \in { << rt >> : rt \in Latencies }
                /\ store'[i].is_active
                /\ store'[i].last_checked = << now + tz >>
      ]_vars

\* the returned record p is row i of the store
IsRow(p, i) == p.ip = store[i].ip /\ p.port = store[i].port

\* C16: get_active_proxies returns exactly the records that are active and
\* either untested or have success_count / (success_count + fail_count) >=
\* the minimum, by success_count descending then fail_count ascending, cut
\* to the first `limit` of that order when limit is positive; never an
\* inactive record.
C16_QueryActive ==
    (pc = "done" /\ call.op = "get_proxy_pool") =>
        LET q == result.value
            ok == Eligible(store, call.rate)
            in == { i \in ok : \E k \in DOMAIN q : IsRow(q[k], i) }
        IN /\ \A k \in DOMAIN q : \E i \in ok :
                 /\ IsRow(q[k], i)
                 /\ q[k].success_count = store[i].success_count
                 /\ q[k].fail_count = store[i].fail_count
           /\ \A k, m \in DOMAIN q : (q[k].ip = q[m].ip /\ q[k].port = q[m].port) => k = m
           /\ \A k, m \in DOMAIN q :
                 k < m => \/ q[k].success_count > q[m].success_count
                          \/ /\ q[k].success_count = q[m].success_count
                             /\ q[k].fail_count <= q[m].fail_count
           /\ Len(q) = IF call.limit > 0 /\ call.limit < Cardinality(ok)
                       THEN call.limit ELSE Cardinality(ok)
           /\ \A i \in ok \ in, k \in DOMAIN q :
                 \/ store[i].success_count < q[k].success_count
                 \/ /\ store[i].success_count = q[k].success_count
                    /\ store[i].fail_count >= q[k].fail_count

\* get_proxy_pool(limit=2) returned two records in order and left out a
\* qualifying record, while the store also holds an inactive record
C16_Witness ==
    /\ pc = "done"
    /\ call.op = "get_proxy_pool"
    /\ call.limit = 2
    /\ Len(result.value) = 2
    /\ result.value[1].success_count > result.value[2].success_count
    /\ Cardinality(Eligible(store, call.rate)) > 2
    /\ \E i \in DOMAIN store : ~store[i].is_active

\* the text x in lower case, spelled out for the letters the tags use
Folded(x) ==
    [i \in DOMAIN x |->
        CASE x[i] = "U" -> "u" [] x[i] = "S" -> "s" [] x[i] = "C" -> "c"
          [] x[i] = "A" -> "a" [] x[i] = "H" -> "h" [] x[i] = "T" -> "t"
          [] x[i] = "P" -> "p" [] OTHER -> x[i]]

\* q is p with some elements left out, the others in the same order
RECURSIVE IsSubsequence(_, _)
IsSubsequence(q, p) ==
    IF q = << >> THEN TRUE
    ELSE IF p = << >> THEN FALSE
    ELSE IF Head(q) = Head(p) THEN IsSubsequence(Tail(q), Tail(p))
    ELSE IsSubsequence(q, Tail(p))

\* C17: with a country and/or protocol filter get_proxies returns only
\* records that match each given filter up to letter case, in the order of
\* the store query, and leaves out a record without a country tag instead of
\* raising.
C17_FiltersMatchAndNeverRaise ==
    (pc = "done" /\ call.op = "get_proxies"
       /\ (call.country # << >> \/ call.protocol # << >>)) =>
        /\ result.kind = "list"
        /\ \A k \in DOMAIN result.value :
              /\ call.country # << >> =>
                    /\ result.value[k].country # << >>
                    /\ Folded(result.value[k].country[1]) = Folded(call.country[1])
              /\ call.protocol # << >> =>
                    Folded(result.value[k].protocol) = Folded(call.protocol[1])
        /\ \E q \in get_active_proxies(store, 0, call.rate) :
              IsSubsequence(result.value, q)

\* get_proxies(limit, min_success_rate = 0.7) without filters
AtSeventy(limit) ==
    [op |-> "get_proxies", limit |-> limit, rate |-> 7,
     country |-> << >>, protocol |-> << >>]

C19_InactiveOnlyPastThreshold ==
    \A i \in DOMAIN store :
        ~store[i].is_active =>
            /\ store[i].fail_count > 5
            /\ 10 * store[i].fail_count > 7 * (store[i].success_count + store[i].fail_count)

\* a record with two successes has just been retired by its sixth failure
C19_Witness ==
    /\ last.op = "update_proxy_failure"
    /\ \E i \in DOMAIN store :
          /\ ~store[i].is_active
          /\ store[i].success_count = 2
          /\ store[i].fail_count = 6

\* the candidate d has its row in table t
Stored(t, d) == \E i \in DOMAIN t : << t[i].ip >> = d.ip /\ << t[i].port >> = d.port

\* C20: in a refresh run the steps come in the order fetch, persist,
\* validate, prune, report: a validation starts only after the fetch is over
\* and the candidates are stored, the prune only after every validation has
\* finished, and the stats of the report are read after the prune.
C20_StepsInOrder ==
    [][ /\ all_proxies' # all_proxies =>
              (pc = "fetch" /\ store' = store /\ probes = << >> /\ parsed_proxies = << >>)
        /\ parsed_proxies' # parsed_proxies =>
              (pc = "persist" /\ all_proxies # << >> /\ probes = << >>)
        /\ probes' # probes =>
              /\ pc = "validate"
              /\ all_proxies' = all_proxies
              /\ parsed_proxies' = parsed_proxies
              /\ \A i \in DOMAIN parsed_proxies :
                    (parsed_proxies[i].ip # << >> /\ parsed_proxies[i].port # << >>)
                       => Stored(store, parsed_proxies[i])
        /\ (pc = "validate" /\ pc' # "validate") =>
              /\ pc' = "report"
              /\ DOMAIN probes = 1..(IF Len(parsed_proxies) < 100
                                     THEN Len(parsed_proxies) ELSE 100)
              /\ probes' = probes
        /\ (report' # report /\ report'[1].success) =>
              /\ pc = "report"
              /\ store' = store
              /\ report'[1].stats = get_stats(store)
              /\ \A i \in DOMAIN store :
                    store[i].is_active \/ store[i].last_checked[1] >= now - 7 * TicksPerDay
      ]_vars

\* a refresh run that validated three candidates and pruned a record of the
\* store it started from has returned its report
C20_Witness ==
    /\ pc = "done"
    /\ call.op = "refresh_proxy_pool"
    /\ report # None
    /\ Len(probes) >= 3
    /\ \E j \in DOMAIN store0 : \A i \in DOMAIN store : store[i].id # store0[j].id

\* the outcomes a record of table t has on its counters
Outcomes(t, i) == t[i].success_count + t[i].fail_count

\* the outcomes the record with rowid `id` had when the call started, 0 for
\* a record created since
Outcomes0(id) ==
    IF \E j \in DOMAIN store0 : store0[j].id = id
    THEN LET j == CHOOSE j \in DOMAIN store0 : store0[j].id = id
         IN Outcomes(store0, j)
    ELSE 0

\* the validations i and j of the batch address the same record
SameTarget(i, j) ==
    /\ parsed_proxies[i].ip # None
    /\ parsed_proxies[i].port # None
    /\ parsed_proxies[i].ip = parsed_proxies[j].ip
    /\ parsed_proxies[i].port = parsed_proxies[j].port

\* C21: within one validation batch no two validations target the same
\* (host, port) record, so a refresh run changes success_count + fail_count
\* of any record by at most 1.
C21_OneValidationPerRecord ==
    /\ \A i \in DOMAIN probes : \A j \in DOMAIN probes : i # j => ~SameTarget(i, j)
    /\ \A i \in DOMAIN store : Outcomes(store, i) - Outcomes0(store[i].id) <= 1

\* the validations of the batch that have started
Validated == DOMAIN probes \cup DOMAIN inflight

\* C22: a refresh run validates at most 100 candidates, whatever the number
\* of candidates parsed; every validated candidate was parsed and stored in
\* this run; a candidate beyond the cap has its record but gets no probe and
\* no change of its counters.
C22_AtMostHundredValidated ==
    /\ Cardinality(Validated) <= 100
    /\ \A i \in Validated :
          /\ i \in DOMAIN parsed_proxies
          /\ Stored(store, parsed_proxies[i])
    /\ \A i \in DOMAIN parsed_proxies :
          i > 100 =>
             /\ i \notin Validated
             /\ Stored(store, parsed_proxies[i])
             /\ \A r \in DOMAIN store :
                   (<< store[r].ip >> = parsed_proxies[i].ip
                      /\ << store[r].port >> = parsed_proxies[i].port)
                   => Outcomes(store, r) = Outcomes0(store[r].id)

\* a run over 104 candidates has returned: 100 validations, two of them
\* successful, and a candidate that would have answered the probe is stored
\* without any outcome
C22_Witness ==
    /\ pc = "done"
    /\ Len(parsed_proxies) > 100
    /\ Cardinality(DOMAIN probes) = 100
    /\ valid_count = 2
    /\ \E r \in DOMAIN store :
          /\ store[r].port \in AlivePorts
          /\ store[r].success_count = 0
          /\ store[r].fail_count = 0

\* C23: at every moment of a refresh run at most 5 source fetches and at
\* most 20 validation probes are in flight, whatever the number of sources
\* and of candidates; the work that waits for a free worker is executed in
\* the end: every source is fetched and every submitted candidate is
\* validated.
C23_BoundedWorkersAllExecuted ==
    /\ [](Cardinality(fetching) <= 5 /\ Cardinality(DOMAIN inflight) <= 20)
    /\ (pc = "fetch") ~> (DOMAIN responses = 1..8 /\ fetching = {})
    /\ (pc = "validate") ~>
          /\ inflight = << >>
          /\ DOMAIN probes = 1..(IF Len(parsed_proxies) < 100
                                 THEN Len(parsed_proxies) ELSE 100)

\* the eight sources have been fetched; twenty validations occupy the
\* workers while candidates below the cap wait for a free one
C23_Witness ==
    /\ pc = "validate"
    /\ DOMAIN responses = 1..8
    /\ Cardinality(DOMAIN inflight) = 20
    /\ \E i \in 1..100 : i <= Len(parsed_proxies) /\ i \notin Validated

\* the validations of the run recorded with `outcome` for row r of the store
Recorded(r, outcome) ==
    { i \in DOMAIN probes :
        /\ probes[i] = outcome
        /\ parsed_proxies[i].ip = << store[r].ip >>
        /\ parsed_proxies[i].port = << store[r].port >> }

\* the value the column `field` of the record with rowid `id` had when the
\* call started, 0 for a record created since
Count0(id, field) ==
    IF \E j \in DOMAIN store0 : store0[j].id = id
    THEN LET j == CHOOSE j \in DOMAIN store0 : store0[j].id = id
         IN store0[j][field]
    ELSE 0

\* the inactivation rule on the counters of row r
PastThreshold(r) ==
    /\ store[r].fail_count > 5
    /\ 10 * store[r].fail_count > 7 * (store[r].success_count + store[r].fail_count)

ProbeGave200(end) == end \in {"ok", "ok_unwritten"}

\* C25: each validation of a candidate whose record exists records exactly
\* one outcome: exactly one of success_count and fail_count grows by exactly
\* 1; it is success_count if and only if the probe returned 200; a probe
\* that returned 200 never increments fail_count, also when a store write of
\* that validation fails.
C25_OneOutcomePerValidation ==
    [][ \A i \in DOMAIN probes' \ DOMAIN probes :
        \A r \in DOMAIN store :
            (<< store[r].ip >> = parsed_proxies[i].ip
               /\ << store[r].port >> = parsed_proxies[i].port)
            => IF ProbeGave200(probes'[i])
               THEN /\ store'[r].success_count = store[r].success_count + 1
                    /\ store'[r].fail_count = store[r].fail_count
               ELSE /\ store'[r].success_count = store[r].success_count
                    /\ store'[r].fail_count = store[r].fail_count + 1
      ]_vars

\* the parsed candidates whose INSERT did not raise
Persisted ==
    { i \in DOMAIN parsed_proxies :
        ~(last.op = "add_proxies_bulk" /\ last.key = i) }

\* C26: a refresh run whose merged candidate set is not empty reaches its
\* report and returns success = true; a token that does not parse, a
\* validation that fails or raises, a store write that raises on one
\* candidate do not stop the others: every token that parses is a candidate,
\* every candidate whose INSERT did not raise has its record, every submitted
\* candidate is validated; valid_proxies is the number of validations that
\* returned success.
C26_RunCompletes ==
    /\ (pc = "persist") ~> (pc = "done" /\ report # None /\ report[1].success)
    /\ [](parsed_proxies # << >> =>
            /\ Len(parsed_proxies) =
                  Cardinality({ k \in DOMAIN all_proxies :
                                  parse_proxy_string(all_proxies[k]) # None })
            /\ \A i \in Persisted :
                  (parsed_proxies[i].ip # None /\ parsed_proxies[i].port # None)
                     => Stored(store, parsed_proxies[i]))
    /\ [](report # None /\ all_proxies # << >> =>
            /\ report[1].success
            /\ DOMAIN probes = 1..(IF Len(parsed_proxies) < 100
                                   THEN Len(parsed_proxies) ELSE 100)
            /\ report[1].valid_proxies =
                  Cardinality({ i \in DOMAIN probes : probes[i] = "ok" }))

\* a run has reported success after a token that did not parse, a
\* validation whose store update raised, one that failed and one that
\* succeeded
C26_Witness ==
    /\ pc = "done"
    /\ report # None
    /\ report[1].success
    /\ report[1].valid_proxies = 1
    /\ Len(parsed_proxies) < Len(all_proxies)
    /\ \E i, j, k \in DOMAIN probes :
          probes[i] = "raised" /\ probes[j] = "fail" /\ probes[k] = "ok"

\* a run has reported success although the INSERT of its first candidate
\* raised; the candidates after it have their records
C26_WitnessInsert ==
    /\ pc = "done"
    /\ report # None
    /\ report[1].success
    /\ last.op = "add_proxies_bulk"
    /\ last.key = 1
    /\ Len(parsed_proxies) >= 3
    /\ \A i \in 2..Len(parsed_proxies) : Stored(store, parsed_proxies[i])


\* the probes that have finished while their outcome is not yet in the
\* store: what a crash of the process now would lose
Lost == { i \in DOMAIN inflight : inflight[i] # "probe" }

\* the record of candidate d carries exactly the outcomes `outs`
Carries(d, outs) ==
    \A r \in DOMAIN store :
       (<< store[r].port >> = d.port /\ << store[r].ip >> = d.ip)
       => /\ store[r].success_count = Cardinality(outs \cap {"ok"})
          /\ store[r].fail_count = Cardinality(outs \cap {"fail"})

\* C27 (as stated): at any point of a validation batch at most one probe
\* has finished without its outcome being committed to the store, so a
\* crash loses at most one outcome.
C27_AtMostOneLost == Cardinality(Lost) <= 1

\* C27 (amended): each outcome is committed on its own in the step in which
\* its validation returns; at any point of the batch the store carries the
\* outcome of every validation that has returned and of no other, and the
\* outcomes a crash would lose are those of validations still running in a
\* worker, at most max_workers (20) of them.
C27_CommittedBeforeReturn ==
    /\ [](pc = "validate" =>
            /\ Lost \subseteq DOMAIN inflight
            /\ Cardinality(Lost) <= ValidateWorkers
            /\ \A i \in Submitted(parsed_proxies) :
                  Carries(parsed_proxies[i],
                          IF i \in DOMAIN probes THEN {probes[i]} ELSE {}))
    /\ [][ /\ Cardinality(DOMAIN probes' \ DOMAIN probes) <= 1
           /\ \A i \in DOMAIN probes' \ DOMAIN probes :
                 /\ i \in Lost
                 /\ \E rt \in Latencies :
                       store' = OutcomeUpdate(store, parsed_proxies[i], probes'[i], rt)
                 /\ store' # store ]_vars

\* in the middle of a batch some validations have returned with their
\* outcome in the store, and two probes have finished, a successful and a
\* failed one, whose outcomes are not yet committed
C27_Witness ==
    /\ pc = "validate"
    /\ DOMAIN probes # {}
    /\ Cardinality(Lost) = 2
    /\ \E i \in Lost : inflight[i] = "ok"
    /\ \E i \in Lost : inflight[i] = "fail"
    /\ Cardinality(DOMAIN inflight) = ValidateWorkers


\* C28: a get_proxies call on a store that holds at least MIN_PROXIES (10)
\* active records meeting its minimum rate triggers no refresh and leaves
\* the store unchanged, for every limit >= 1.
C28_NoRefreshOnFullPool ==
    [][(/\ pc = "idle"
        /\ call'.op = "get_proxies"
        /\ call'.limit >= 1
        /\ Cardinality(Eligible(store, call'.rate)) >= MIN_PROXIES)
       => (pc' = "done" /\ store' = store)]_vars

\* the active records of the store that meet the minimum rate of call c and
\* match its country and protocol filters
Matching(t, c) ==
    { i \in Eligible(t, c.rate) :
        /\ Truthy(c.country) =>
              (t[i].country # None /\ Upper(t[i].country[1]) = Upper(c.country[1]))
        /\ Truthy(c.protocol) => Lower(t[i].protocol) = Lower(c.protocol[1]) }

NotAfter(t, j, i) ==
    \/ t[j].success_count > t[i].success_count
    \/ /\ t[j].success_count = t[i].success_count
       /\ t[j].fail_count <= t[i].fail_count

\* the records that are among the first 2 * limit of the query of call c
\* in whatever order the store returns ties
InWindow(t, c) ==
    { i \in Eligible(t, c.rate) :
        Cardinality({ j \in Eligible(t, c.rate) \ {i} : NotAfter(t, j, i) })
           < 2 * c.limit }

\* the returned dictionary p is the record i of t
IsRecord(t, i, p) == << t[i].ip >> = << p.ip >> /\ t[i].port = p.port

C30_StatsSnapshot ==
    stats.pc = "done" =>
       /\ StatsReturned.inactive_proxies >= 0
       /\ StatsReturned.active_proxies <= StatsReturned.total_proxies

====
